---- MODULE Spec2Model ----
(***************************************************************************)
(* A model of the ic_log logging core: the Logger facade (src/src/lib.rs), *)
(* its thread-local formatter cache, the byte buffer and sink              *)
(* (src/src/fmt/writer/termcolor/imp.rs, src/src/platform.rs) and the      *)
(* filter engine (module `filter`, whose source is not part of the tree    *)
(* and which is modelled from the specification's sections 4.1 - 4.3).     *)
(*                                                                         *)
(* Text is a sequence of one-character strings; a rendered byte carries    *)
(* the number of the log call that wrote it, so that bytes of different    *)
(* records can be told apart.                                              *)
(***************************************************************************)
EXTENDS Integers, Sequences, FiniteSets, TLC

(***************************************************************************)
(* Bounds of the model.                                                    *)
(***************************************************************************)
\* number of Logger::log calls in one behaviour of Spec
MaxCalls == 3
\* number of Logger::log calls in one behaviour of SpecReconfig
MaxReconfigCalls == 2
\* depth of nested Logger::log calls on one thread (2 = one re-entrant call)
MaxDepth == 2
\* number of runtime reconfigurations in one behaviour
MaxInstalls == 2
\* number of directives in a directive list drawn for the matching check
MaxDirs == 3

\* Option<T>: the empty sequence is None, a one-element sequence is Some(x)
None == <<>>

Some(x) == <<x>>

IsSome(o) == o # <<>>

Unwrap(o) == o[1]

(***************************************************************************)
(* Severity levels: Off < Error < Warn < Info < Debug < Trace.             *)
(***************************************************************************)
LevelFilters == <<"Off", "Error", "Warn", "Info", "Debug", "Trace">>

Levels == {"Error", "Warn", "Info", "Debug", "Trace"}

LevelOrd(l) == (CHOOSE i \in 1..Len(LevelFilters) : LevelFilters[i] = l) - 1

\* `level <= filter` of the log crate: a record level against a level filter
LevelLe(level, filter) == LevelOrd(level) <= LevelOrd(filter)

LevelMax(a, b) == IF LevelOrd(a) >= LevelOrd(b) THEN a ELSE b

(***************************************************************************)
(* Text helpers.                                                           *)
(***************************************************************************)
StartsWith(s, p) == Len(p) <= Len(s) /\ SubSeq(s, 1, Len(p)) = p

Contains(s, p) == \E i \in 0..(Len(s) - Len(p)) : SubSeq(s, i + 1, i + Len(p)) = p

LowerOf == [A |-> "a", B |-> "b", D |-> "d", E |-> "e", F |-> "f", G |-> "g",
            I |-> "i", N |-> "n", O |-> "o", R |-> "r", T |-> "t", U |-> "u", W |-> "w"]

ToLower(s) == [i \in 1..Len(s) |-> IF s[i] \in DOMAIN LowerOf THEN LowerOf[s[i]] ELSE s[i]]

RECURSIVE TrimStart(_)
TrimStart(s) == IF s # <<>> /\ Head(s) = " " THEN TrimStart(Tail(s)) ELSE s

RECURSIVE TrimEnd(_)
TrimEnd(s) == IF s # <<>> /\ s[Len(s)] = " " THEN TrimEnd(SubSeq(s, 1, Len(s) - 1)) ELSE s

Trim(s) == TrimEnd(TrimStart(s))

\* the pieces of s between occurrences of the separator c
RECURSIVE SplitAcc(_, _, _, _)
SplitAcc(s, c, cur, acc) ==
    IF s = <<>> THEN Append(acc, cur)
    ELSE IF Head(s) = c THEN SplitAcc(Tail(s), c, <<>>, Append(acc, cur))
    ELSE SplitAcc(Tail(s), c, Append(cur, Head(s)), acc)

Split(s, c) == SplitAcc(s, c, <<>>, <<>>)

(***************************************************************************)
(* Directive parser (specification section 4.1; module `filter`).          *)
(***************************************************************************)
LevelNames == [Off   |-> <<"o", "f", "f">>,
               Error |-> <<"e", "r", "r", "o", "r">>,
               Warn  |-> <<"w", "a", "r", "n">>,
               Info  |-> <<"i", "n", "f", "o">>,
               Debug |-> <<"d", "e", "b", "u", "g">>,
               Trace |-> <<"t", "r", "a", "c", "e">>]

LevelDigits == <<"0", "1", "2", "3", "4", "5">>

\* a severity token: a case-insensitive name, or a digit 0..5; None when unknown
parse_level(tok) ==
    LET low == ToLower(tok)
        byName == {l \in DOMAIN LevelNames : LevelNames[l] = low}
        byDigit == {i \in 1..Len(LevelDigits) : low = <<LevelDigits[i]>>}
    IN  IF byName # {} THEN Some(CHOOSE l \in byName : TRUE)
        ELSE IF byDigit # {} THEN Some(LevelFilters[CHOOSE i \in byDigit : TRUE])
        ELSE None

Directive(name, level) == [name |-> name, level |-> level]

\* one comma-separated entry: [dir |-> Option<Directive>, bad |-> malformed?]
parse_entry(e) ==
    LET t == Trim(e)
        kv == Split(t, "=")
    IN  IF t = <<>> THEN [dir |-> None, bad |-> FALSE]
        ELSE IF Len(kv) = 1 THEN
            IF IsSome(parse_level(t))
            THEN [dir |-> Some(Directive(None, Unwrap(parse_level(t)))), bad |-> FALSE]
            ELSE [dir |-> Some(Directive(Some(t), "Trace")), bad |-> FALSE]
        ELSE IF Len(kv) = 2 /\ Trim(kv[1]) # <<>> /\ IsSome(parse_level(Trim(kv[2])))
            THEN [dir |-> Some(Directive(Some(Trim(kv[1])), Unwrap(parse_level(Trim(kv[2]))))),
                  bad |-> FALSE]
        ELSE [dir |-> None, bad |-> TRUE]

\* a parser that gives up at the first malformed entry
RECURSIVE parse_entries_abort(_)
parse_entries_abort(es) ==
    IF es = <<>> THEN [directives |-> <<>>, errors |-> <<>>]
    ELSE LET r == parse_entry(Head(es))
         IN  IF r.bad THEN [directives |-> <<>>, errors |-> <<Trim(Head(es))>>]
             ELSE LET rest == parse_entries_abort(Tail(es))
                  IN  [directives |-> r.dir \o rest.directives, errors |-> rest.errors]

RECURSIVE parse_entries(_)
parse_entries(es) ==
    IF es = <<>> THEN [directives |-> <<>>, errors |-> <<>>]
    ELSE LET r == parse_entry(Head(es))
             rest == parse_entries(Tail(es))
         IN  [directives |-> r.dir \o rest.directives,
              errors |-> (IF r.bad THEN <<Trim(Head(es))>> ELSE <<>>) \o rest.errors]

\* the whole directive string: entries, then an optional "/pattern" suffix
parse_spec(spec) ==
    LET cut == {i \in 1..Len(spec) : spec[i] = "/"}
        at == IF cut = {} THEN Len(spec) + 1 ELSE CHOOSE i \in cut : \A j \in cut : i <= j
        mods == SubSeq(spec, 1, at - 1)
        pat == SubSeq(spec, at + 1, Len(spec))
        r == parse_entries(Split(mods, ","))
    IN  [directives |-> r.directives,
         pattern |-> IF cut = {} THEN None ELSE Some(pat),
         errors |-> r.errors]

(***************************************************************************)
(* Compiled filter (specification sections 3 and 4.2; module `filter`).    *)
(***************************************************************************)
RECURSIVE MaxLevelOf(_)
MaxLevelOf(ds) ==
    IF ds = <<>> THEN "Off" ELSE LevelMax(Head(ds).level, MaxLevelOf(Tail(ds)))

\* an immutable snapshot; src is the directive string it was compiled from
CompiledFilter(directives, pattern, src) ==
    [directives |-> directives, max_level |-> MaxLevelOf(directives),
     pattern |-> pattern, src |-> src]

Filter_parse(spec) ==
    LET p == parse_spec(spec) IN CompiledFilter(p.directives, p.pattern, spec)

PrefixLen(d) == IF IsSome(d.name) THEN Len(Unwrap(d.name)) ELSE 0

DirectiveMatches(d, target) == ~IsSome(d.name) \/ StartsWith(target, Unwrap(d.name))

\* the most specific matching directive decides; ties go to the later one
Filter_enabled(f, target, level) ==
    LET D == f.directives
        matching == {i \in 1..Len(D) : DirectiveMatches(D[i], target)}
        best == CHOOSE i \in matching : \A j \in matching :
                    \/ PrefixLen(D[j]) < PrefixLen(D[i])
                    \/ PrefixLen(D[j]) = PrefixLen(D[i]) /\ j <= i
    IN  matching # {} /\ LevelLe(level, D[best].level)

Filter_matches(f, record) ==
    /\ Filter_enabled(f, record.target, record.level)
    /\ (IsSome(f.pattern) => Contains(record.msg, Unwrap(f.pattern)))

Filter_filter(f) == f.max_level

(***************************************************************************)
(* The world of the model: threads, loggers, records, directive strings.   *)
(***************************************************************************)
Threads == {"t1", "t2"}

\* callers of the runtime reconfiguration surface
Installers == {"c1", "c2"}

Loggers == {"L1", "L2"}

\* writer.write_style() of each logger (lib.rs:306, lib.rs:432)
Writer_write_style(lg) == IF lg = "L2" THEN "Always" ELSE "Never"

T_my_mod == <<"m", "y", ":", ":", "m", "o", "d">>

T_other_mod == <<"o", "t", "h", "e", "r", ":", ":", "m", "o", "d">>

S_error == <<"e", "r", "r", "o", "r">>

S_info == <<"i", "n", "f", "o">>

\* "info,bogus=notalevel,my::mod=warn"
S_malformed == S_info \o <<",", "b", "o", "g", "u", "s", "=", "n", "o", "t", "a", "l", "e", "v", "e", "l", ",">>
               \o T_my_mod \o <<"=", "w", "a", "r", "n">>

\* "warn,my::mod=debug"
S_warn_mymod_debug == <<"w", "a", "r", "n", ",">> \o T_my_mod \o <<"=", "d", "e", "b", "u", "g">>

\* " Debug /a": everything up to debug, restricted to messages containing "a"
S_debug_pat == <<" ", "D", "e", "b", "u", "g", " ", "/", "a">>

\* the directive string each logger was built with
InitialSpec(lg) == IF lg = "L1" THEN S_error ELSE S_warn_mymod_debug

\* the directive strings submitted at runtime
InstallSpecs == {S_info, S_debug_pat}

Record(target, level, msg) == [target |-> target, level |-> level, msg |-> msg]

Records == {Record(T_my_mod, "Debug", <<"a">>),
            Record(T_other_mod, "Info", <<"b">>),
            Record(T_other_mod, "Error", <<"c">>)}

\* what the render function writes for a record, one byte per write
Rendered(record) == record.msg \o <<"$">>

(***************************************************************************)
(* State.                                                                  *)
(***************************************************************************)
VARIABLES
    registry,   \* per logger: the current CompiledFilter of its hot-swap cell
    maxLevel,   \* the process-wide maximum-severity gate
    pending,    \* per installer: the filter it has constructed and not yet stored
    installed,  \* per logger: the directive strings installed so far, in order
    slot,       \* per thread: FORMATTER, the RefCell<Option<Formatter>> content
    borrowed,   \* per thread: FORMATTER is mutably borrowed
    tlsAlive,   \* per thread: FORMATTER's destructor has not run yet
    stack,      \* per thread: the Logger::log calls in progress, innermost last
    sink,       \* the chunks handed to platform::print, in order
    calls,      \* number of Logger::log calls started
    allocs,     \* per thread: number of Formatter::new calls
    lastCall,   \* per thread: the Logger::log call that returned last
    seen,       \* per thread: what its accepted calls so far have been like
    query,      \* the last Log::enabled or Log::flush call and its result
    reads,      \* per thread: the last current() call and the snapshot it returned
    overlapped, \* per logger: the last install ran while another one was stored
    builder,    \* per builder: its configuration and its `built` flags
    global,     \* the logger registered with the log crate, if any
    outcome     \* the last build, try_init or init call and how it ended

\* the state of the builders and of the log crate
builderVars == <<builder, global, outcome>>

\* what the readers and installers of the registry have seen
readerVars == <<reads, overlapped>>

vars == <<registry, maxLevel, pending, installed, slot, borrowed, tlsAlive,
          stack, sink, calls, allocs, lastCall, seen, query, reads, overlapped,
          builder, global, outcome>>

(***************************************************************************)
(* Buffer and Formatter.                                                   *)
(***************************************************************************)
\* a Buffer::clear that leaves the content in place
Buffer_clear_keeps(buf) == buf

\* BufferWriter::buffer: Buffer(Vec::new())
BufferWriter_buffer == <<>>

\* Buffer::write: self.0.extend(buf)
Buffer_write(buf, bytes) == buf \o bytes

\* Buffer::clear: self.0.clear()
Buffer_clear(buf) == <<>>

\* platform::print hands the bytes to the output as one chunk
platform_print(out, data) == Append(out, data)

\* BufferWriter::print: platform::print(&buf.0); Ok(())
BufferWriter_print(out, buf) == [out |-> platform_print(out, buf), result |-> "Ok"]

\* the capacity of the Vec of a new Buffer: Vec::new() allocates nothing
Buffer_new_capacity == Len(BufferWriter_buffer)

\* a clear that gives the allocation back
Buffer_clear_capacity_shrinks(cap) == Buffer_new_capacity

\* the capacity after Buffer::write: extend grows the Vec to hold its content
\* (at least; the least is modelled) and never shrinks it
Buffer_write_capacity(cap, buf) == IF Len(buf) > cap THEN Len(buf) ELSE cap

\* the capacity after Buffer::clear: Vec::clear keeps the allocation
Buffer_clear_capacity(cap) == cap

\* Formatter::new(&writer): a new buffer and the writer's style
Formatter_new(lg) == [buf |-> BufferWriter_buffer, cap |-> Buffer_new_capacity,
                      write_style |-> Writer_write_style(lg)]

Formatter_write(fmt, bytes) ==
    [fmt EXCEPT !.buf = Buffer_write(fmt.buf, bytes),
                !.cap = Buffer_write_capacity(fmt.cap, Buffer_write(fmt.buf, bytes))]

Formatter_clear(fmt) == [fmt EXCEPT !.buf = Buffer_clear(fmt.buf),
                                    !.cap = Buffer_clear_capacity(fmt.cap)]

(***************************************************************************)
(* Filter registry (specification section 4.3).                            *)
(***************************************************************************)
\* current(): an atomic load of the cell
Registry_current(lg) == registry[lg]

\* a Logger::filter that reports the level of the first directive
Logger_filter_first(lg) ==
    IF Registry_current(lg).directives = <<>> THEN "Off"
    ELSE Registry_current(lg).directives[1].level

\* Logger::filter
Logger_filter(lg) == Filter_filter(Registry_current(lg))

\* a Logger::matches that lets every record through
Logger_matches_all(lg, record) == TRUE

\* Logger::matches
Logger_matches(lg, record) == Filter_matches(Registry_current(lg), record)

\* a Log::enabled that asks the maximum level instead of the directives
Logger_enabled_max_gate(lg, target, level) == LevelLe(level, Logger_filter(lg))

\* a Log::enabled that loses the target of the metadata
Logger_enabled_no_target(lg, target, level) == Filter_enabled(Registry_current(lg), <<>>, level)

\* Log::enabled for Logger
Logger_enabled(lg, target, level) == Filter_enabled(Registry_current(lg), target, level)

NoCall == [call |-> 0, accepted |-> FALSE]

NoneSeen == [styles |-> {}, nested |-> FALSE, failed |-> FALSE]

NoQuery == [asked |-> FALSE]

NoRead == [asked |-> FALSE]

NoOutcome == [op |-> "none"]

\* filter::Builder::parse: the builder keeps what the directive string parses to
Builder_filter(spec) ==
    LET p == parse_spec(spec)
    IN  [directives |-> p.directives, pattern |-> p.pattern, src |-> spec]

\* filter::Builder::build
Filter_build(bf) == CompiledFilter(bf.directives, bf.pattern, bf.src)

\* Builder::new(): Default::default()
Fresh == [filter |-> Builder_filter(<<>>), write_style |-> "Auto",
          built |-> FALSE, writer_built |-> FALSE, loggers |-> 0]

\* a builder the logger of which has been built: both `built` flags are set
Consumed(b) == [filter |-> Builder_filter(InitialSpec(b)),
                write_style |-> Writer_write_style(b),
                built |-> TRUE, writer_built |-> TRUE, loggers |-> 1]

Init ==
    /\ registry = [lg \in Loggers |-> Filter_parse(InitialSpec(lg))]
    /\ maxLevel = "Off"
    /\ pending = [i \in Installers |-> None]
    /\ installed = [lg \in Loggers |-> <<InitialSpec(lg)>>]
    /\ slot = [t \in Threads |-> None]
    /\ borrowed = [t \in Threads |-> FALSE]
    /\ tlsAlive = [t \in Threads |-> TRUE]
    /\ stack = [t \in Threads |-> <<>>]
    /\ sink = <<>>
    /\ calls = 0
    /\ allocs = [t \in Threads |-> 0]
    /\ lastCall = [t \in Threads |-> NoCall]
    /\ seen = [t \in Threads |-> NoneSeen]
    /\ query = NoQuery
    /\ reads = [t \in Threads |-> NoRead]
    /\ overlapped = [lg \in Loggers |-> FALSE]
    /\ builder = [b \in Loggers |-> Consumed(b)]
    /\ global = None
    /\ outcome = NoOutcome

(***************************************************************************)
(* Logger::log (lib.rs:400-461).  The render function is supplied by the   *)
(* user and may itself log, so a call is three kinds of step: LogBegin     *)
(* (filter check, choice of the formatter, up to the call of the render    *)
(* function), RenderWrite (the render function writes one byte) and        *)
(* RenderReturn (the render function returns; print, clear, store,         *)
(* return).                                                                *)
(***************************************************************************)
Top(t) == stack[t][Len(stack[t])]

\* a rendered byte, tagged with the call that wrote it
Bytes(call, text) == [i \in 1..Len(text) |-> [call |-> call, ch |-> text[i]]]

\* a choice of arm that uses the slot without asking whether it is borrowed
LogPath_no_borrow_check(t) ==
    IF ~tlsAlive[t] THEN "teardown"
    ELSE IF IsSome(slot[t]) THEN "cached"
    ELSE "fresh"

\* a choice of arm that takes the slot to be there after its destructor has run
LogPath_no_fallback(t) ==
    IF borrowed[t] THEN "reentrant"
    ELSE IF IsSome(slot[t]) THEN "cached"
    ELSE "fresh"

\* a staleness check that never fires
StyleStale_never(fmt, lg) == FALSE

\* a None arm that forgets to store the formatter it built
StoreFresh_forgets(fmt) == None

\* a print closure that hands the io::Result on instead of dropping it
PrintReturn_propagates(result) == IF result = "Ok" THEN "normal" ELSE "error"

\* a choice of arm that takes FORMATTER for one cell shared by all threads
LogPath_shared_cell(t) ==
    IF ~tlsAlive[t] THEN "teardown"
    ELSE IF \E u \in Threads : borrowed[u] THEN "reentrant"
    ELSE IF IsSome(slot[t]) THEN "cached"
    ELSE "fresh"

\* which arm of lib.rs:423-459 a call takes
LogPath(t) ==
    IF ~tlsAlive[t] THEN "teardown"        \* try_with fails: lib.rs:454-459
    ELSE IF borrowed[t] THEN "reentrant"   \* try_borrow_mut fails: lib.rs:447-449
    ELSE IF IsSome(slot[t]) THEN "cached"  \* lib.rs:429-437
    ELSE "fresh"                           \* lib.rs:439-444

\* lib.rs:432: formatter.write_style() != self.writer.write_style()
StyleStale(fmt, lg) == fmt.write_style # Writer_write_style(lg)

\* lib.rs:443: *tl_buf = Some(formatter)
StoreFresh(fmt) == Some(fmt)

\* lib.rs:416: `let _ = ...` drops the io::Result; the closure returns ()
PrintReturn(result) == "normal"

\* a `printed` that is false also after the closure given to try_with has run
Printed_never(path) == FALSE

\* lib.rs:423-452: printed = FORMATTER.try_with(..).is_ok()
Printed(path) == path # "teardown"

\* the formatter a call in progress writes to
Working(t, f) == IF f.path = "cached" THEN Unwrap(slot[t]) ELSE Unwrap(f.local)

\* a print closure that prints the buffer whatever the render function returned
print_without_and_then(fmt, out, r) ==
    LET p == BufferWriter_print(out, fmt.buf)
    IN  [fmt |-> Formatter_clear(fmt),
         out |-> p.out,
         returned |-> PrintReturn(p.result),
         phases |-> <<"Rendering", "Delivered", "Cleared">>]

\* a print closure that prints whatever the buffer holds, also after an error
print_partial(fmt, out, r) ==
    LET p == IF fmt.buf # <<>> THEN BufferWriter_print(out, fmt.buf)
                               ELSE [out |-> out, result |-> r]
    IN  [fmt |-> Formatter_clear(fmt),
         out |-> p.out,
         returned |-> PrintReturn(p.result),
         phases |-> <<"Rendering">> \o (IF r = "Ok" THEN <<"Delivered">> ELSE <<>>)
                    \o <<"Cleared">>]

\* the print closure, lib.rs:415-421, once the render function has returned r
print(fmt, out, r) ==
    LET p == IF r = "Ok" THEN BufferWriter_print(out, fmt.buf)
                         ELSE [out |-> out, result |-> r]
    IN  [fmt |-> Formatter_clear(fmt),
         out |-> p.out,
         returned |-> PrintReturn(p.result),
         phases |-> <<"Rendering">> \o (IF r = "Ok" THEN <<"Delivered">> ELSE <<>>)
                    \o <<"Cleared">>]

LogBegin(t, lg, record) ==
    /\ calls' = calls + 1
    /\ IF ~Logger_matches(lg, record)
       THEN /\ lastCall' = [lastCall EXCEPT ![t] =
                   [call |-> calls + 1, logger |-> lg, record |-> record,
                    accepted |-> FALSE, path |-> "none", result |-> "none",
                    returned |-> "normal", nested |-> FALSE, allocd |-> 0,
                    renders |-> 0, written |-> 0, left |-> <<>>, chunk |-> <<>>,
                    tls |-> tlsAlive[t], hist |-> installed[lg],
                    phases |-> <<"Received", "FilterCheck", "Dropped">>]]
            /\ UNCHANGED <<slot, borrowed, stack, allocs, seen>>
       ELSE LET path == LogPath(t)
                stale == path = "cached" /\ StyleStale(Unwrap(slot[t]), lg)
                build == path # "cached" \/ stale
                frame == [call |-> calls + 1, logger |-> lg, record |-> record,
                          path |-> path,
                          local |-> IF path = "cached" THEN None ELSE Some(Formatter_new(lg)),
                          n |-> 0,
                          found |-> IF path = "cached" THEN Some(Unwrap(slot[t]).write_style) ELSE None,
                          allocd |-> IF build THEN 1 ELSE 0,
                          renders |-> 1,
                          nested |-> FALSE,
                          tls |-> tlsAlive[t],
                          hist |-> installed[lg]]
            IN  /\ slot' = IF stale THEN [slot EXCEPT ![t] = Some(Formatter_new(lg))] ELSE slot
                /\ borrowed' = IF path \in {"cached", "fresh"}
                               THEN [borrowed EXCEPT ![t] = TRUE] ELSE borrowed
                /\ allocs' = IF build THEN [allocs EXCEPT ![t] = @ + 1] ELSE allocs
                /\ stack' = [stack EXCEPT ![t] = Append(@, frame)]
                /\ seen' = [seen EXCEPT ![t].styles = @ \cup {Writer_write_style(lg)},
                                        ![t].nested = @ \/ stack[t] # <<>>]
                /\ UNCHANGED lastCall
    /\ UNCHANGED <<registry, maxLevel, pending, installed, tlsAlive, sink, query,
                   readerVars, builderVars>>

\* the render function writes the next byte of the record: Buffer::write
RenderWrite(t) ==
    /\ stack[t] # <<>>
    /\ LET f == Top(t)
           text == Bytes(f.call, Rendered(f.record))
           fmt == Formatter_write(Working(t, f), <<text[f.n + 1]>>)
           g == [f EXCEPT !.n = @ + 1,
                          !.local = IF f.path = "cached" THEN None ELSE Some(fmt)]
       IN  /\ f.n < Len(text)
           /\ slot' = IF f.path = "cached" THEN [slot EXCEPT ![t] = Some(fmt)] ELSE slot
           /\ stack' = [stack EXCEPT ![t][Len(stack[t])] = g]
    /\ UNCHANGED <<registry, maxLevel, pending, installed, borrowed, tlsAlive,
                   sink, calls, allocs, lastCall, seen, query,
                   readerVars, builderVars>>

\* the render function returns r (an error at any point, Ok once all is written)
RenderReturn(t, r) ==
    /\ stack[t] # <<>>
    /\ LET f == Top(t)
           d == Len(stack[t])
           p == print(Working(t, f), sink, r)
           rest == SubSeq(stack[t], 1, d - 1)
           \* lib.rs:454: if !printed, the fallback renders the record (again)
           fallback == f.path # "teardown" /\ ~Printed(f.path)
           again == [f EXCEPT !.path = "teardown",
                              !.local = Some(Formatter_new(f.logger)),
                              !.n = 0,
                              !.allocd = @ + 1,
                              !.renders = @ + 1]
       IN  /\ r = "Ok" => f.n = Len(Rendered(f.record))
           /\ sink' = p.out
           /\ slot' = IF f.path = "cached" THEN [slot EXCEPT ![t] = Some(p.fmt)]
                      ELSE IF f.path = "fresh" THEN [slot EXCEPT ![t] = StoreFresh(p.fmt)]
                      ELSE slot
           /\ borrowed' = IF f.path \in {"cached", "fresh"}
                          THEN [borrowed EXCEPT ![t] = FALSE] ELSE borrowed
           /\ stack' = [stack EXCEPT ![t] =
                           IF fallback THEN Append(rest, again)
                           ELSE IF d = 1 THEN <<>>
                           ELSE [rest EXCEPT ![d - 1].nested = TRUE]]
           /\ lastCall' = IF fallback THEN lastCall ELSE [lastCall EXCEPT ![t] =
                   [call |-> f.call, logger |-> f.logger, record |-> f.record,
                    accepted |-> TRUE, path |-> f.path, result |-> r,
                    returned |-> p.returned, nested |-> f.nested, allocd |-> f.allocd,
                    renders |-> f.renders, written |-> f.n, left |-> p.fmt.buf,
                    chunk |-> IF Len(p.out) > Len(sink) THEN p.out[Len(p.out)] ELSE <<>>,
                    tls |-> f.tls, hist |-> f.hist,
                    phases |-> <<"Received", "FilterCheck", "Accepted">> \o p.phases]]
           /\ allocs' = IF fallback THEN [allocs EXCEPT ![t] = @ + 1] ELSE allocs
           /\ seen' = [seen EXCEPT ![t].failed = @ \/ r = "Err"]
    /\ UNCHANGED <<registry, maxLevel, pending, installed, tlsAlive, calls, query,
                   readerVars, builderVars>>

\* the thread-local destructor runs: FORMATTER is dropped and out of reach
ThreadTeardown(t) ==
    /\ tlsAlive[t]
    /\ stack[t] = <<>>
    /\ tlsAlive' = [tlsAlive EXCEPT ![t] = FALSE]
    /\ slot' = [slot EXCEPT ![t] = None]
    /\ UNCHANGED <<registry, maxLevel, pending, installed, borrowed, stack, sink,
                   calls, allocs, lastCall, seen, query,
                   readerVars, builderVars>>

(***************************************************************************)
(* Runtime reconfiguration (specification sections 4.3 and 6).             *)
(***************************************************************************)
\* number of installations published so far
Installs == Len(installed["L1"]) + Len(installed["L2"])
            - Cardinality({lg \in Loggers : installed[lg] # <<>>})

\* a store that publishes the new directives under the old maximum level
Publish_torn(old, new) == [new EXCEPT !.max_level = old.max_level]

\* a load that hands out the filter the logger was built with
Registry_load_first(lg) == Filter_parse(installed[lg][1])

\* the atomic store of a fully constructed filter: the cell holds the new reference
Publish(old, new) == new

\* the atomic load of current(), as a reader gets it
Registry_load(lg) == Registry_current(lg)

\* parse and compile the new directive string; nothing is published yet
InstallBegin(i, lg, spec) ==
    /\ ~IsSome(pending[i])
    /\ Installs + Cardinality({j \in Installers : IsSome(pending[j])}) < MaxInstalls
    /\ pending' = [pending EXCEPT ![i] = Some([logger |-> lg, filter |-> Filter_parse(spec),
                                               base |-> Len(installed[lg])])]
    /\ UNCHANGED <<registry, maxLevel, installed, slot, borrowed, tlsAlive, stack,
                   sink, calls, allocs, lastCall, seen, query,
                   readerVars, builderVars>>

\* the atomic store, with the refresh of the process-wide gate, then return
InstallStore(i) ==
    /\ IsSome(pending[i])
    /\ LET p == Unwrap(pending[i])
       IN  /\ registry' = [registry EXCEPT ![p.logger] = Publish(@, p.filter)]
           /\ maxLevel' = Filter_filter(p.filter)
           /\ installed' = [installed EXCEPT ![p.logger] = Append(@, p.filter.src)]
           /\ overlapped' = [overlapped EXCEPT ![p.logger] = p.base < Len(installed[p.logger])]
    /\ pending' = [pending EXCEPT ![i] = None]
    /\ UNCHANGED <<slot, borrowed, tlsAlive, stack, sink, calls, allocs, lastCall,
                   seen, query, reads, builderVars>>

\* the number of the newest installation on lg that published filter f, 0 if none did
NewestOf(lg, f) ==
    LET ks == {k \in 1..Len(installed[lg]) : Filter_parse(installed[lg][k]) = f}
    IN  IF ks = {} THEN 0 ELSE CHOOSE k \in ks : \A j \in ks : j <= k

\* current() on thread t: one atomic load; the reader keeps the snapshot.  `floor`
\* is the newest installation a current() that returned before has handed out,
\* `done` the number of installations that have returned
CurrentCall(t, lg) ==
    /\ reads' = [reads EXCEPT ![t] =
           [asked |-> TRUE, logger |-> lg, filter |-> Registry_load(lg),
            version |-> NewestOf(lg, Registry_load(lg)),
            floor |-> LET before == {reads[u].version : u \in {v \in Threads :
                                        reads[v].asked /\ reads[v].logger = lg}}
                      IN  IF before = {} THEN 1
                          ELSE CHOOSE k \in before : \A j \in before : j <= k,
            done |-> Len(installed[lg])]]
    /\ UNCHANGED <<registry, maxLevel, pending, installed, slot, borrowed, tlsAlive,
                   stack, sink, calls, allocs, lastCall, seen, query, overlapped,
                   builderVars>>

\* a flush that sends what the cached buffer holds and empties it
Logger_flush_drains(out, cell) ==
    IF IsSome(cell) /\ Unwrap(cell).buf # <<>>
    THEN [out |-> platform_print(out, Unwrap(cell).buf), cell |-> Some(Formatter_clear(Unwrap(cell)))]
    ELSE [out |-> out, cell |-> cell]

\* Log::flush for Logger: fn flush(&self) {}
Logger_flush(out, cell) == [out |-> out, cell |-> cell]

\* Log::flush called on thread t, possibly by the render function of a call in
\* progress; `buffered` is the number of bytes the cached buffer held then
FlushCall(t, lg) ==
    /\ LET r == Logger_flush(sink, slot[t])
       IN  /\ sink' = r.out
           /\ slot' = [slot EXCEPT ![t] = r.cell]
    /\ query' = [asked |-> TRUE, op |-> "flush", logger |-> lg, thread |-> t,
                 buffered |-> IF IsSome(slot[t]) THEN Len(Unwrap(slot[t]).buf) ELSE 0]
    /\ UNCHANGED <<registry, maxLevel, pending, installed, borrowed, tlsAlive,
                   stack, calls, allocs, lastCall, seen, readerVars, builderVars>>

(***************************************************************************)
(* Builder (lib.rs:62-379) and the registration with the log crate.        *)
(* Builder b builds logger b.                                              *)
(***************************************************************************)
\* the directive strings handed to Builder::parse_filters
BuilderSpecs == {S_info, S_malformed}

WriteStyles == {"Never", "Always"}

\* f with key k set to v
Put(f, k, v) == [x \in DOMAIN f \cup {k} |-> IF x = k THEN v ELSE f[x]]

\* a build that hands out a Logger however often it is called
Builder_build_reusable(bld) ==
    [panicked |-> FALSE,
     bld |-> [bld EXCEPT !.built = TRUE, !.writer_built = TRUE, !.loggers = @ + 1]]

\* Builder::build: the two one-shot assertions, then the Logger
Builder_build(bld) ==
    IF bld.built THEN [panicked |-> TRUE, bld |-> bld]              \* lib.rs:370
    ELSE IF bld.writer_built                                        \* writer/mod.rs:128
         THEN [panicked |-> TRUE, bld |-> [bld EXCEPT !.built = TRUE]]
    ELSE [panicked |-> FALSE,
          bld |-> [bld EXCEPT !.built = TRUE, !.writer_built = TRUE, !.loggers = @ + 1]]

\* a try_init that sets the maximum level whatever set_boxed_logger returned
try_init_max_level_always(result, max_level, old) == max_level

\* lib.rs:343-345: if r.is_ok() { log::set_max_level(max_level); }
try_init_max_level(result, max_level, old) == IF result = "Ok" THEN max_level ELSE old

\* log::set_boxed_logger: the first registration wins, a later one is an error
set_boxed_logger(g, lg) ==
    IF IsSome(g) THEN [global |-> g, result |-> "Err"]
    ELSE [global |-> Some(lg), result |-> "Ok"]

\* Builder::parse_filters
ParseFiltersCall(b, spec) ==
    /\ builder' = [builder EXCEPT ![b].filter = Builder_filter(spec)]
    /\ outcome' = [op |-> "parse_filters", builder |-> b, spec |-> spec,
                   result |-> "returned", errors |-> parse_spec(spec).errors]
    /\ UNCHANGED <<registry, maxLevel, pending, installed, slot, borrowed, tlsAlive,
                   stack, sink, calls, allocs, lastCall, seen, query, readerVars, global>>

\* Builder::write_style
WriteStyleCall(b, ws) ==
    /\ builder' = [builder EXCEPT ![b].write_style = ws]
    /\ outcome' = [op |-> "write_style", builder |-> b, result |-> "returned"]
    /\ UNCHANGED <<registry, maxLevel, pending, installed, slot, borrowed, tlsAlive,
                   stack, sink, calls, allocs, lastCall, seen, query, readerVars, global>>

\* Builder::build called by the user
BuildCall(b) ==
    /\ LET r == Builder_build(builder[b])
       IN  /\ builder' = [builder EXCEPT ![b] = r.bld]
           /\ registry' = IF r.panicked THEN registry
                          ELSE Put(registry, b, Filter_build(builder[b].filter))
           /\ installed' = IF r.panicked THEN installed
                           ELSE [installed EXCEPT ![b] = <<builder[b].filter.src>>]
           /\ outcome' = [op |-> "build", builder |-> b, was_built |-> builder[b].built,
                          registered |-> global, max_level |-> maxLevel,
                          result |-> IF r.panicked THEN "panic" ELSE "Logger"]
    /\ UNCHANGED <<maxLevel, pending, slot, borrowed, tlsAlive, stack, sink, calls,
                   allocs, lastCall, seen, query, readerVars, global>>

\* Builder::try_init (op = "try_init") and Builder::init (op = "init"), which is
\* try_init().expect(..): build, logger.filter(), set_boxed_logger, set_max_level
InitCall(b, op) ==
    /\ LET r == Builder_build(builder[b])
           s == set_boxed_logger(global, b)
       IN  /\ builder' = [builder EXCEPT ![b] = r.bld]
           /\ registry' = IF r.panicked THEN registry
                          ELSE Put(registry, b, Filter_build(builder[b].filter))
           /\ installed' = IF r.panicked THEN installed
                           ELSE [installed EXCEPT ![b] = <<builder[b].filter.src>>]
           /\ global' = IF r.panicked THEN global ELSE s.global
           /\ maxLevel' = IF r.panicked THEN maxLevel
                          ELSE try_init_max_level(s.result, Logger_filter(b)', maxLevel)
           /\ outcome' = [op |-> op, builder |-> b, was_built |-> builder[b].built,
                          registered |-> global, max_level |-> maxLevel',
                          result |-> IF r.panicked THEN "panic"
                                     ELSE IF s.result = "Err" /\ op = "init" THEN "panic"
                                     ELSE s.result]
    /\ UNCHANGED <<pending, slot, borrowed, tlsAlive, stack, sink, calls,
                   allocs, lastCall, seen, query, readerVars>>

\* another library registers its logger with the log crate
OtherLibraryInit ==
    /\ global' = set_boxed_logger(global, "other").global
    /\ global' # global
    /\ UNCHANGED <<registry, maxLevel, pending, installed, slot, borrowed, tlsAlive,
                   stack, sink, calls, allocs, lastCall, seen, query, readerVars,
                   builder, outcome>>

\* Log::enabled for Logger, asked by a caller
EnabledCall(lg, target, level) ==
    /\ query' = [asked |-> TRUE, logger |-> lg, target |-> target, level |-> level,
                 result |-> Logger_enabled(lg, target, level)]
    /\ UNCHANGED <<registry, maxLevel, pending, installed, slot, borrowed, tlsAlive,
                   stack, sink, calls, allocs, lastCall, seen, readerVars, builderVars>>

(***************************************************************************)
(* Specifications.                                                         *)
(*   Spec         one thread logs through both loggers, re-entrantly and   *)
(*                past the end of its thread-local storage                 *)
(*   SpecReconfig the filters are replaced at runtime while a thread logs  *)
(*   SpecEnabled  Log::enabled on a logger whose directive list is drawn   *)
(*                from the bounded lists                                   *)
(*   SpecFlush    a thread logs and flushes at any point                   *)
(*   SpecThreads  two threads log side by side                             *)
(*   SpecBuilder  builders are configured, built and registered            *)
(*   SpecGate     a logger is registered by try_init, then reconfigured    *)
(*   SpecRegistry readers and concurrent installers of the registry        *)
(***************************************************************************)
Next ==
    \/ \E lg \in Loggers, record \in Records :
          calls < MaxCalls /\ Len(stack["t1"]) < MaxDepth /\ LogBegin("t1", lg, record)
    \/ RenderWrite("t1")
    \/ \E r \in {"Ok", "Err"} : RenderReturn("t1", r)
    \/ ThreadTeardown("t1")

Spec == Init /\ [][Next]_vars

NextReconfig ==
    \/ \E lg \in Loggers, spec \in InstallSpecs : InstallBegin("c1", lg, spec)
    \/ InstallStore("c1")
    \/ \E lg \in Loggers, record \in Records :
          calls < MaxReconfigCalls /\ stack["t1"] = <<>> /\ LogBegin("t1", lg, record)
    \/ RenderWrite("t1")
    \/ \E r \in {"Ok", "Err"} : RenderReturn("t1", r)

SpecReconfig == Init /\ [][NextReconfig]_vars

\* a thread logs and flushes, also from inside the render function
NextFlush ==
    \/ \E lg \in Loggers, record \in Records :
          calls < MaxReconfigCalls /\ Len(stack["t1"]) < MaxDepth /\ LogBegin("t1", lg, record)
    \/ RenderWrite("t1")
    \/ \E r \in {"Ok", "Err"} : RenderReturn("t1", r)
    \/ \E lg \in Loggers : FlushCall("t1", lg)

SpecFlush == Init /\ [][NextFlush]_vars

\* several threads log at the same time, each call on its own thread
NextThreads ==
    \/ \E t \in Threads, lg \in Loggers, record \in Records :
          calls < MaxCalls /\ stack[t] = <<>> /\ LogBegin(t, lg, record)
    \/ \E t \in Threads : RenderWrite(t)
    \/ \E t \in Threads, r \in {"Ok", "Err"} : RenderReturn(t, r)

SpecThreads == Init /\ [][NextThreads]_vars

InitBuilder ==
    /\ registry = <<>>
    /\ maxLevel = "Off"
    /\ pending = [i \in Installers |-> None]
    /\ installed = [lg \in Loggers |-> <<>>]
    /\ slot = [t \in Threads |-> None]
    /\ borrowed = [t \in Threads |-> FALSE]
    /\ tlsAlive = [t \in Threads |-> TRUE]
    /\ stack = [t \in Threads |-> <<>>]
    /\ sink = <<>>
    /\ calls = 0
    /\ allocs = [t \in Threads |-> 0]
    /\ lastCall = [t \in Threads |-> NoCall]
    /\ seen = [t \in Threads |-> NoneSeen]
    /\ query = NoQuery
    /\ reads = [t \in Threads |-> NoRead]
    /\ overlapped = [lg \in Loggers |-> FALSE]
    /\ builder = [b \in Loggers |-> Fresh]
    /\ global = None
    /\ outcome = NoOutcome

NextBuilder ==
    \/ \E b \in Loggers, spec \in BuilderSpecs : ParseFiltersCall(b, spec)
    \/ \E b \in Loggers, ws \in WriteStyles : WriteStyleCall(b, ws)
    \/ \E b \in Loggers : BuildCall(b)
    \/ \E b \in Loggers, op \in {"try_init", "init"} : InitCall(b, op)
    \/ OtherLibraryInit

SpecBuilder == InitBuilder /\ [][NextBuilder]_vars

\* the registered logger is reconfigured at runtime
NextGate ==
    \/ \E b \in Loggers, spec \in {S_info, S_warn_mymod_debug} : ParseFiltersCall(b, spec)
    \/ \E b \in Loggers : InitCall(b, "try_init")
    \/ \E lg \in DOMAIN registry, spec \in InstallSpecs :
          global = Some(lg) /\ InstallBegin("c1", lg, spec)
    \/ InstallStore("c1")

SpecGate == InitBuilder /\ [][NextGate]_vars

NextRegistry ==
    \/ \E i \in Installers, lg \in Loggers, spec \in InstallSpecs : InstallBegin(i, lg, spec)
    \/ \E i \in Installers : InstallStore(i)
    \/ \E t \in Threads, lg \in Loggers : CurrentCall(t, lg)

SpecRegistry == Init /\ [][NextRegistry]_vars

\* the directive lists of the matching check
DirNames == {None, Some(<<"m", "y">>), Some(T_my_mod)}

DirLevels == {"Off", "Warn", "Trace"}

Directives == {Directive(n, l) : n \in DirNames, l \in DirLevels}

DirLists == UNION {[1..k -> Directives] : k \in 0..MaxDirs}

Targets == {<<"m", "y">>, T_my_mod, T_other_mod}

InitEnabled ==
    /\ \E f \in {CompiledFilter(ds, None, <<>>) : ds \in DirLists}
                 \cup {Filter_parse(InitialSpec(lg)) : lg \in Loggers} :
          registry = [lg \in Loggers |-> IF lg = "L1" THEN f ELSE Filter_parse(InitialSpec(lg))]
    /\ maxLevel = "Off"
    /\ pending = [i \in Installers |-> None]
    /\ installed = [lg \in Loggers |-> <<InitialSpec(lg)>>]
    /\ slot = [t \in Threads |-> None]
    /\ borrowed = [t \in Threads |-> FALSE]
    /\ tlsAlive = [t \in Threads |-> TRUE]
    /\ stack = [t \in Threads |-> <<>>]
    /\ sink = <<>>
    /\ calls = 0
    /\ allocs = [t \in Threads |-> 0]
    /\ lastCall = [t \in Threads |-> NoCall]
    /\ seen = [t \in Threads |-> NoneSeen]
    /\ query = NoQuery
    /\ reads = [t \in Threads |-> NoRead]
    /\ overlapped = [lg \in Loggers |-> FALSE]
    /\ builder = [b \in Loggers |-> Consumed(b)]
    /\ global = None
    /\ outcome = NoOutcome

NextEnabled == \E target \in Targets, level \in Levels : EnabledCall("L1", target, level)

SpecEnabled == InitEnabled /\ [][NextEnabled]_vars

(***************************************************************************)
(* Properties of Logger::log, checked under Spec.                          *)
(***************************************************************************)
Frames(t) == {stack[t][k] : k \in 1..Len(stack[t])}

\* what the render function of a call in progress has written so far
WrittenSoFar(f) == SubSeq(Bytes(f.call, Rendered(f.record)), 1, f.n)

\* the complete output of the render function for a returned call
Output(c) == Bytes(c.call, Rendered(c.record))

\* C1: a log call made from inside the render function of another one on the
\* same thread (the slot is borrowed) renders into a formatter of its own that
\* is never stored in the slot; the buffer of every call in progress holds
\* exactly what its own render function wrote, so no byte of the inner record
\* is in the outer buffer, and the outer call delivers exactly its own output.
C1_ReentrantLogging ==
    \A t \in Threads :
        /\ \A k \in 1..Len(stack[t]) :
              LET f == stack[t][k]
              IN  /\ (k >= 2 /\ f.tls) => (f.path = "reentrant" /\ IsSome(f.local))
                  /\ Working(t, f).buf = WrittenSoFar(f)
        /\ (stack[t] # <<>> /\ stack[t][1].path = "fresh") => slot[t] = None
        /\ (lastCall[t].accepted /\ lastCall[t].nested /\ lastCall[t].result = "Ok")
              => lastCall[t].chunk = Output(lastCall[t])

\* an outer call that used the cached formatter has returned Ok after an inner
\* call delivered its record in the middle of it
C1_Witness ==
    \E t \in Threads :
        /\ lastCall[t].accepted /\ lastCall[t].nested
        /\ lastCall[t].result = "Ok" /\ lastCall[t].path = "cached"
        /\ Len(sink) >= 2
        /\ sink[Len(sink)] = lastCall[t].chunk
        /\ sink[Len(sink) - 1][1].call > lastCall[t].call

\* C2: on a thread whose thread-local storage is available, whose accepted
\* calls were never nested and all had the same write style, at most one
\* formatter has been constructed, by the first accepted call; every later call
\* uses the cached one.
C2_BufferReuse ==
    \A t \in Threads :
        (tlsAlive[t] /\ ~seen[t].nested /\ Cardinality(seen[t].styles) <= 1) =>
            /\ allocs[t] <= 1
            /\ (seen[t].styles # {}) => allocs[t] = 1
            /\ \A f \in Frames(t) :
                  IF f.allocd = 1 THEN f.path = "fresh" ELSE f.path = "cached"

\* a third accepted call of one style is running on the formatter the first built
C2_Witness ==
    \E t \in Threads :
        /\ tlsAlive[t] /\ ~seen[t].nested /\ Cardinality(seen[t].styles) = 1
        /\ calls = 3 /\ allocs[t] = 1
        /\ lastCall[t].accepted /\ lastCall[t].path = "cached"
        /\ stack[t] # <<>> /\ Top(t).path = "cached"

\* C3: a call renders into the cached formatter only while its write style is
\* the style of the logger of that call; a call that finds a cached formatter
\* of another style builds exactly one new formatter, a call that finds one of
\* its own style builds none, and the formatter left in the slot has the style
\* of the call that used it last.
C3_StyleStaleness ==
    \A t \in Threads :
        /\ \A f \in Frames(t) :
              f.path = "cached" =>
                 /\ IsSome(slot[t])
                 /\ Unwrap(slot[t]).write_style = Writer_write_style(f.logger)
                 /\ f.allocd = IF Unwrap(f.found) # Writer_write_style(f.logger) THEN 1 ELSE 0
        /\ (stack[t] = <<>> /\ tlsAlive[t] /\ lastCall[t].accepted
               /\ lastCall[t].path \in {"cached", "fresh"}) =>
                 /\ IsSome(slot[t])
                 /\ Unwrap(slot[t]).write_style = Writer_write_style(lastCall[t].logger)

\* after a call that rebuilt the formatter for a new style, the next call of
\* that style runs on the rebuilt formatter
C3_Witness ==
    \E t \in Threads :
        /\ lastCall[t].accepted /\ lastCall[t].path = "cached" /\ lastCall[t].allocd = 1
        /\ stack[t] # <<>> /\ Top(t).path = "cached" /\ Top(t).allocd = 0
        /\ Top(t).logger = lastCall[t].logger
        /\ allocs[t] = 2

C6_TeardownFallback ==
    \A t \in Threads :
        /\ ~tlsAlive[t] => (slot[t] = None /\ ~borrowed[t])
        /\ \A f \in Frames(t) :
              ~f.tls => (f.path = "teardown" /\ IsSome(f.local) /\ f.allocd = 1)
        /\ (lastCall[t].accepted /\ ~lastCall[t].tls) =>
              /\ lastCall[t].path = "teardown"
              /\ lastCall[t].allocd = 1
              /\ lastCall[t].returned = "normal"
              /\ lastCall[t].result = "Ok" => lastCall[t].chunk = Output(lastCall[t])
        /\ (lastCall[t].call > 0 /\ ~lastCall[t].accepted /\ ~lastCall[t].tls) =>
              ~Filter_matches(registry[lastCall[t].logger], lastCall[t].record)

\* a record logged after the destructor ran has been delivered
C6_Witness ==
    \E t \in Threads :
        /\ ~tlsAlive[t]
        /\ lastCall[t].accepted /\ ~lastCall[t].tls /\ lastCall[t].result = "Ok"
        /\ sink # <<>> /\ sink[Len(sink)] = Output(lastCall[t])

PhasesDelivered == <<"Received", "FilterCheck", "Accepted", "Rendering", "Delivered", "Cleared">>

PhasesFailed == <<"Received", "FilterCheck", "Accepted", "Rendering", "Cleared">>

\* one step of thread t, seen as the life of a record; `phases` says which
\* phases an accepted record must have gone through, given its call
Lifecycle(t, phases(_)) ==
    /\ (lastCall'[t] # lastCall[t] /\ ~lastCall'[t].accepted) =>
          /\ ~Filter_matches(registry[lastCall'[t].logger], lastCall'[t].record)
          /\ lastCall'[t].phases = <<"Received", "FilterCheck", "Dropped">>
          /\ UNCHANGED <<slot, borrowed, stack, allocs, sink>>
    /\ Len(stack'[t]) > Len(stack[t]) =>
          LET f == stack'[t][Len(stack'[t])]
          IN  Filter_matches(registry[f.logger], f.record) /\ f.n = 0
    /\ (lastCall'[t] # lastCall[t] /\ lastCall'[t].accepted) =>
          /\ lastCall'[t].phases = phases(lastCall'[t])
          /\ ("Delivered" \in {lastCall'[t].phases[i] : i \in 1..Len(lastCall'[t].phases)})
                <=> sink' = Append(sink, Output(lastCall'[t]))
          /\ lastCall'[t].left = <<>>

AlwaysDelivered(c) == PhasesDelivered

DeliveredIfRendered(c) == IF c.result = "Ok" THEN PhasesDelivered ELSE PhasesFailed

\* C7 as stated: every record is checked against the filter first; a rejected
\* record is dropped and changes neither slot, formatter count nor sink; an
\* accepted record goes through Rendering, Delivered and Cleared, in that order.
C7_Original == [][\A t \in Threads : Lifecycle(t, AlwaysDelivered)]_vars

\* C7, amended: as C7, but an accepted record goes through Delivered only when
\* its render function returned Ok; when it returned an error the record goes
\* from Rendering to Cleared and nothing is handed to the sink.
C7_Lifecycle == [][\A t \in Threads : Lifecycle(t, DeliveredIfRendered)]_vars

\* the third record failed to render after an earlier one was delivered
C7_Witness ==
    \E t \in Threads :
        /\ lastCall[t].accepted /\ lastCall[t].result = "Err"
        /\ lastCall[t].phases = PhasesFailed
        /\ seen[t].styles # {} /\ sink # <<>>
        /\ calls = 3

(***************************************************************************)
(* Properties of the filter, checked under SpecEnabled and SpecReconfig.   *)
(***************************************************************************)
\* C8: with the directive string "warn,my::mod=debug", enabled("my::mod",
\* Debug) is true, enabled("my::mod", Trace) is false, enabled("other::mod",
\* Info) is false and enabled("other::mod", Warn) is true.
C8_Scenario ==
    (query.asked /\ registry[query.logger].src = S_warn_mymod_debug) =>
        /\ (query.target = T_my_mod /\ query.level = "Debug") => query.result
        /\ (query.target = T_my_mod /\ query.level = "Trace") => ~query.result
        /\ (query.target = T_other_mod /\ query.level = "Info") => ~query.result
        /\ (query.target = T_other_mod /\ query.level = "Warn") => query.result

\* enabled("my::mod", Debug) has been asked of that logger and answered true
C8_Witness ==
    /\ query.asked /\ registry[query.logger].src = S_warn_mymod_debug
    /\ query.target = T_my_mod /\ query.level = "Debug" /\ query.result

\* p is a textual prefix of s
TextualPrefix(p, s) == Len(p) <= Len(s) /\ \A k \in 1..Len(p) : s[k] = p[k]

\* the linear scan: the index of the directive selected for target among
\* D[i..], given the index selected among D[1..i-1] (0: none so far)
ScanLen(d) == IF d.name = None THEN 0 ELSE Len(d.name[1])

RECURSIVE ScanFrom(_, _, _, _)
ScanFrom(D, i, target, sel) ==
    IF i > Len(D) THEN sel
    ELSE LET applies == D[i].name = None \/ TextualPrefix(D[i].name[1], target)
             takes == IF sel = 0 THEN TRUE ELSE ScanLen(D[i]) >= ScanLen(D[sel])
         IN  ScanFrom(D, i + 1, target, IF applies /\ takes THEN i ELSE sel)

LinearScan(D, target, level) ==
    LET sel == ScanFrom(D, 1, target, 0)
    IN  /\ sel # 0
        /\ D[sel].level # "Off"
        /\ LevelOrd(level) <= LevelOrd(D[sel].level)

\* C9: for every directive list and every (target, level), enabled(target,
\* level) is the answer of a linear scan that selects, among the directives
\* with no prefix or a prefix that is a textual prefix of the target, the one
\* with the longest prefix, the later one on a tie, and answers level <= L for
\* its level L: false when nothing is selected and false when L is Off.
C9_MatchesLinearScan ==
    query.asked =>
        query.result = LinearScan(registry[query.logger].directives, query.target, query.level)

\* a query answered true by the later of two directives of the same, longest
\* matching prefix, the earlier of which is Off
C9_Witness ==
    /\ query.asked /\ query.result
    /\ LET D == registry[query.logger].directives
       IN  \E i, j \in 1..Len(D) :
              /\ i < j
              /\ IsSome(D[i].name) /\ D[i].name = D[j].name
              /\ Unwrap(D[i].name) = query.target
              /\ D[i].level = "Off"
              /\ \E k \in 1..Len(D) : ~IsSome(D[k].name) /\ D[k].level = "Off"

\* C10: a logger configured by "error" and reconfigured at runtime to "info"
\* drops a Debug record before and after the reconfiguration, drops an Info
\* record before it, and accepts an Info record in every log call that starts
\* after the reconfiguration has returned.
C10_Reconfiguration ==
    \A t \in Threads :
        /\ \A f \in Frames(t) :
              /\ f.hist = <<S_error>> => f.record.level \notin {"Debug", "Info"}
              /\ f.hist = <<S_error, S_info>> => f.record.level # "Debug"
        /\ lastCall[t].call > 0 =>
              LET c == lastCall[t]
              IN  /\ (c.hist = <<S_error>> /\ c.record.level \in {"Debug", "Info"})
                        => ~c.accepted
                  /\ (c.hist = <<S_error, S_info>> /\ c.record.level = "Debug") => ~c.accepted
                  /\ (c.hist = <<S_error, S_info>> /\ c.record.level = "Info") => c.accepted

\* the second call, begun after "info" was installed over "error", has
\* accepted an Info record and delivered it
C10_Witness ==
    \E t \in Threads :
        /\ calls = 2
        /\ lastCall[t].accepted /\ lastCall[t].result = "Ok"
        /\ lastCall[t].hist = <<S_error, S_info>>
        /\ lastCall[t].record.level = "Info"
        /\ Len(sink) = 1 /\ sink[1] = Output(lastCall[t])

(***************************************************************************)
(* Properties of the filter registry, checked under SpecRegistry.          *)
(***************************************************************************)
Readers == {t \in Threads : reads[t].asked}

\* C11: monotonic visibility: a current() never returns a snapshot installed
\* before one that an earlier current() on the same registry has returned, and
\* never one installed before an installation that had returned when it started
C11_MonotonicVisibility ==
    \A t \in Readers :
        /\ reads[t].version >= reads[t].floor
        /\ reads[t].version >= reads[t].done

C11_Witness ==
    \E t \in Readers :
        /\ reads[t].floor >= 2
        /\ reads[t].done > reads[t].floor
        /\ reads[t].version = reads[t].done

\* the filters installed on lg so far, the initial one included
InstalledFilters(lg) == {Filter_parse(installed[lg][k]) : k \in 1..Len(installed[lg])}

\* f has the directives, the maximum level and the pattern of one and the same g
SameParts(f, g) ==
    /\ f.directives = g.directives
    /\ f.max_level = g.max_level
    /\ f.pattern = g.pattern

\* C12: atomic replacement: every snapshot current() returns is, in all its
\* parts, one of the filters installed; once two installations that ran at the
\* same time have both returned, the registry holds one of their two inputs
C12_AtomicReplacement ==
    /\ \A t \in Readers :
          \E g \in InstalledFilters(reads[t].logger) : SameParts(reads[t].filter, g)
    /\ \A lg \in Loggers :
          overlapped[lg] /\ (\A i \in Installers : ~IsSome(pending[i]))
          => LET n == Len(installed[lg])
             IN  \E k \in {n - 1, n} :
                    SameParts(Registry_current(lg), Filter_parse(installed[lg][k]))

C12_Witness ==
    \E lg \in Loggers, t \in Readers :
        /\ overlapped[lg]
        /\ \A i \in Installers : ~IsSome(pending[i])
        /\ installed[lg][Len(installed[lg])] # installed[lg][Len(installed[lg]) - 1]
        /\ reads[t].logger = lg
        /\ reads[t].version = Len(installed[lg])

(***************************************************************************)
(* Properties of the builder, checked under SpecGate and SpecBuilder.      *)
(***************************************************************************)
\* C13: the maximum level a logger reports is the maximum over the directives of
\* its current filter, so nothing is enabled above it; try_init hands that level
\* to the log crate, and it is the process-wide level again once a runtime
\* reconfiguration of the registered logger has returned
C13_MaxLevelGate ==
    /\ \A lg \in DOMAIN registry :
          /\ Logger_filter(lg) = MaxLevelOf(Registry_current(lg).directives)
          /\ \A target \in Targets, level \in Levels :
                Logger_enabled(lg, target, level) => LevelLe(level, Logger_filter(lg))
    /\ outcome.op = "try_init" /\ outcome.result = "Ok"
          => outcome.max_level = MaxLevelOf(builder[outcome.builder].filter.directives)
    /\ \A lg \in DOMAIN registry :
          global = Some(lg) /\ pending["c1"] = None => maxLevel = Logger_filter(lg)

C13_Witness ==
    \E lg \in DOMAIN registry :
        /\ global = Some(lg)
        /\ installed[lg] = <<S_warn_mymod_debug, S_info>>
        /\ pending["c1"] = None
        /\ maxLevel = "Info"
        /\ Logger_enabled(lg, T_my_mod, "Info")
        /\ ~Logger_enabled(lg, T_my_mod, "Debug")

C15_TryInitReturnsErr ==
    outcome.op = "try_init" /\ IsSome(outcome.registered)
        => outcome.result = "Err" /\ global = outcome.registered

\* C16: a malformed entry does not stop the parsing: the string
\* "info,bogus=notalevel,my::mod=warn" leaves the directives of its two valid
\* entries, in their order, in the builder and in the logger built from it, the
\* bad entry is reported and parse_filters returns
C16_MalformedEntry ==
    LET valid == <<Directive(None, "Info"), Directive(Some(T_my_mod), "Warn")>>
    IN  /\ outcome.op = "parse_filters" =>
              /\ outcome.result = "returned"
              /\ builder[outcome.builder].filter.src = outcome.spec
              /\ outcome.spec = S_malformed =>
                    /\ builder[outcome.builder].filter.directives = valid
                    /\ outcome.errors = <<SubSeq(S_malformed, 6, 20)>>
        /\ \A lg \in DOMAIN registry :
              Registry_current(lg).src = S_malformed =>
                    /\ Registry_current(lg).directives = valid
                    /\ Logger_enabled(lg, T_other_mod, "Info")
                    /\ Logger_enabled(lg, T_my_mod, "Warn")
                    /\ ~Logger_enabled(lg, T_my_mod, "Info")

C16_Witness ==
    /\ outcome.op = "build"
    /\ outcome.result = "Logger"
    /\ Registry_current(outcome.builder).src = S_malformed
    /\ Len(Registry_current(outcome.builder).directives) = 2

(***************************************************************************)
(* Properties of Log::flush, checked under SpecFlush.                      *)
(***************************************************************************)
\* a step that is a flush leaves the loggers, the filters, the thread-local
\* formatters and the sink as they are
FlushFrame ==
    query' # query /\ query'.op = "flush"
        => UNCHANGED <<registry, maxLevel, pending, installed, slot, borrowed, tlsAlive,
                       stack, sink, calls, allocs, lastCall, seen, readerVars, builderVars>>

\* the call handed all the bytes of its record to the sink
AllHandedOver(c) ==
    c.accepted => c.chunk = Bytes(c.call, Rendered(c.record)) /\ c.left = <<>>

\* the call handed all the bytes of its record to the sink if the render function
\* returned Ok and none of them if not, and kept nothing back
HandedOverIfRendered(c) ==
    c.accepted =>
        /\ c.left = <<>>
        /\ c.chunk = IF c.result = "Ok" THEN Bytes(c.call, Rendered(c.record)) ELSE <<>>

\* C17 as stated: flush changes nothing and sends nothing, and every accepted
\* record has been handed to the sink in full when its log call returns
C17_Original ==
    [][FlushFrame /\ \A t \in Threads : AllHandedOver(lastCall'[t])]_vars

\* C17: flush changes nothing and sends nothing; when a log call returns, the
\* record has been handed to the sink in full if its render function returned
\* Ok and not at all otherwise, and the buffer keeps no byte back for a flush
C17_FlushNoOp ==
    [][FlushFrame /\ \A t \in Threads : HandedOverIfRendered(lastCall'[t])]_vars

C17_Witness ==
    /\ query.asked
    /\ query.op = "flush"
    /\ query.buffered > 0
    /\ stack["t1"] # <<>>
    /\ lastCall["t1"].accepted
    /\ lastCall["t1"].result = "Ok"
    /\ Len(sink) = 1

(***************************************************************************)
(* Properties of threads logging side by side, checked under SpecThreads.  *)
(***************************************************************************)
\* thread t takes a step of a log call
Acts(t) == stack'[t] # stack[t] \/ lastCall'[t] # lastCall[t]

\* a step of one thread leaves the formatter, the borrow and the calls of every
\* other thread alone
OwnCellOnly ==
    \A t \in Threads : Acts(t) =>
        \A u \in Threads \ {t} :
            /\ slot'[u] = slot[u]
            /\ borrowed'[u] = borrowed[u]
            /\ stack'[u] = stack[u]
            /\ allocs'[u] = allocs[u]
            /\ lastCall'[u] = lastCall[u]

\* every chunk is the rendering of one record by one call, no call has two chunks
WholeChunks ==
    /\ \A i \in 1..Len(sink) :
          \E c \in 1..calls, record \in Records : sink[i] = Bytes(c, Rendered(record))
    /\ \A i, j \in 1..Len(sink) : i # j => sink[i][1].call # sink[j][1].call

\* a buffer holds bytes of the call of its own thread that is in progress only
OwnBytesOnly ==
    \A t \in Threads :
        /\ IsSome(slot[t]) =>
              \A k \in 1..Len(Unwrap(slot[t]).buf) :
                  stack[t] # <<>> /\ Unwrap(slot[t]).buf[k].call = Top(t).call
        /\ \A f \in Frames(t) : IsSome(f.local) =>
              \A k \in 1..Len(Unwrap(f.local).buf) : Unwrap(f.local).buf[k].call = f.call

\* a call that is not nested gets the cell of its thread whatever the other
\* threads do, and can go on
NeverWaits ==
    \A t \in Threads : stack[t] # <<>> =>
        /\ stack[t][1].path \in {"fresh", "cached"}
        /\ ENABLED (RenderWrite(t) \/ RenderReturn(t, "Err"))

\* C18: threads that log at the same time each use their own cached formatter
\* only; a chunk handed to the sink is the rendering of one record of one
\* thread, no buffer ever mixes the bytes of two calls, and no call is held up
\* or turned away from its cell by another thread
C18_ThreadIsolation ==
    [][OwnCellOnly /\ WholeChunks' /\ OwnBytesOnly' /\ NeverWaits']_vars

C18_Witness ==
    /\ stack["t1"] # <<>> /\ stack["t2"] # <<>>
    /\ Top("t1").n = 1 /\ Top("t2").n = 1
    /\ Top("t1").logger = Top("t2").logger
    /\ Top("t1").path = "cached" /\ Top("t2").path = "fresh"
    /\ Len(sink) = 1

(***************************************************************************)
(* Properties of the buffer's capacity and of the paths of Logger::log,    *)
(* checked under Spec.                                                     *)
(***************************************************************************)
\* the step does not shrink the cached buffer of t
CapKept(t) ==
    IsSome(slot[t]) /\ IsSome(slot'[t]) => Unwrap(slot'[t]).cap >= Unwrap(slot[t]).cap

\* the step replaces the cached formatter of t by one of another write style
Rebuilt(t) ==
    /\ IsSome(slot[t]) /\ IsSome(slot'[t])
    /\ Unwrap(slot'[t]).write_style # Unwrap(slot[t]).write_style

\* the cached buffer has room for its content and for what the last call that
\* used it rendered, and is empty between calls
HoldsLargest(t) ==
    IsSome(slot[t]) =>
        /\ Len(Unwrap(slot[t]).buf) <= Unwrap(slot[t]).cap
        /\ stack[t] = <<>> =>
              /\ Unwrap(slot[t]).buf = <<>>
              /\ lastCall[t].accepted /\ lastCall[t].path \in {"cached", "fresh"}
                    => Unwrap(slot[t]).cap >= lastCall[t].written

\* C19 as stated: over any sequence of log calls on a thread the capacity of the
\* cached buffer never decreases and covers the largest record rendered into it
C19_Original ==
    [][\A t \in Threads : CapKept(t) /\ HoldsLargest(t)']_vars

\* C19: the capacity of a thread's cached buffer never decreases, clearing
\* included, and covers what was rendered into it, for as long as the cached
\* formatter is not rebuilt; a call whose logger has another write style than
\* the cached formatter replaces the buffer by a new, empty one
C19_CapacityMonotone ==
    [][\A t \in Threads :
          /\ Rebuilt(t) \/ CapKept(t)
          /\ Rebuilt(t) => Unwrap(slot'[t]).cap = Buffer_new_capacity
          /\ HoldsLargest(t)']_vars

C19_Witness ==
    /\ stack["t1"] = <<>>
    /\ IsSome(slot["t1"])
    /\ allocs["t1"] = 1
    /\ lastCall["t1"].accepted
    /\ lastCall["t1"].path = "cached"
    /\ lastCall["t1"].written = 1
    /\ Unwrap(slot["t1"]).cap = 2

\* the chunks call c has handed to the sink
ChunksOf(c) == {i \in 1..Len(sink) : sink[i] # <<>> /\ sink[i][1].call = c}

\* C20: on each path of Logger::log an accepted record is rendered once and
\* handed to the sink once at most: no call in progress or returned has had
\* its render function invoked twice or has two chunks in the sink, a call
\* that returned has one chunk if its render function returned Ok and none if
\* not, and only a call that found the thread-local storage gone is on the
\* fallback path
C20_ExactlyOnce ==
    /\ \A c \in 1..calls : Cardinality(ChunksOf(c)) <= 1
    /\ \A t \in Threads :
          /\ \A f \in Frames(t) :
                /\ f.renders = 1
                /\ ChunksOf(f.call) = {}
                /\ f.path = "teardown" <=> ~f.tls
          /\ lastCall[t].accepted =>
                /\ lastCall[t].renders = 1
                /\ Cardinality(ChunksOf(lastCall[t].call)) = IF lastCall[t].result = "Ok" THEN 1 ELSE 0
                /\ lastCall[t].path = "teardown" <=> ~lastCall[t].tls

C20_Witness ==
    /\ lastCall["t1"].accepted
    /\ lastCall["t1"].path = "teardown"
    /\ lastCall["t1"].result = "Ok"
    /\ Len(sink) = 3
    /\ allocs["t1"] = 3
    /\ seen["t1"].styles = {"Never", "Always"}

(***************************************************************************)
(* Further properties of the print closure (under Spec) and of try_init    *)
(* (under SpecBuilder).                                                    *)
(***************************************************************************)
\* C21: a record whose render function returned an error leaves nothing in the
\* sink, however many bytes it had rendered, so every chunk of the sink is the
\* whole output of a call whose render function returned Ok
C21_NoPartialOutput ==
    /\ \A i \in 1..Len(sink) :
          /\ sink[i] # <<>>
          /\ \E record \in Records : sink[i] = Bytes(sink[i][1].call, Rendered(record))
          /\ \A t \in Threads :
                lastCall[t].call = sink[i][1].call =>
                    lastCall[t].result = "Ok" /\ sink[i] = Output(lastCall[t])
    /\ \A t \in Threads :
          lastCall[t].accepted /\ lastCall[t].result = "Err" =>
              /\ lastCall[t].chunk = <<>>
              /\ \A i \in 1..Len(sink) : \A k \in 1..Len(sink[i]) :
                    sink[i][k].call # lastCall[t].call

C21_Witness ==
    /\ lastCall["t1"].accepted
    /\ lastCall["t1"].result = "Err"
    /\ lastCall["t1"].written = 1
    /\ lastCall["t1"].path = "cached"
    /\ Len(sink) = 1

\* the step is a call of try_init
TryInitStep == outcome' # outcome /\ outcome'.op = "try_init"

\* C22: a try_init that registers its logger sets the process-wide maximum
\* level to that logger's Logger::filter(); one that does not leaves the
\* maximum level and the registered logger as they were; the builder is
\* consumed after the call either way
C22_MaxLevelOnSuccess ==
    [][\A b \in Loggers : TryInitStep /\ outcome'.builder = b =>
              /\ builder'[b].built
              /\ outcome'.result = "Ok" =>
                    /\ global' = Some(b)
                    /\ maxLevel' = MaxLevelOf(builder[b].filter.directives)
                    /\ maxLevel' = Logger_filter(b)'
              /\ outcome'.result # "Ok" =>
                    /\ global' = global
                    /\ maxLevel' = maxLevel]_vars

C22_Witness ==
    /\ outcome.op = "try_init"
    /\ outcome.result = "Err"
    /\ builder[outcome.builder].built
    /\ MaxLevelOf(builder[outcome.builder].filter.directives) = "Info"
    /\ maxLevel = "Off"
    /\ global = Some("other")

====
